---- MODULE Spec2Model ----
(***************************************************************************)
(* roachedis: a key-value store whose source of truth is an append-only    *)
(* log table (kv_log in CockroachDB) and whose reads are served from       *)
(* per-region Redis caches.                                                *)
(*                                                                         *)
(* Two designs live in the repository and both are modelled here:          *)
(*   - the CDC design: src/server/kv_store_go.go (API server, writes only  *)
(*     to the log) and src/hydrator/cache_hydrator.go (changefeed loop     *)
(*     that applies each committed row to the region's cache);             *)
(*   - the synchronous-cache server: src/kv_store_go.go (writes the log    *)
(*     and then the cache, per-key mutex on the cache-miss path).          *)
(*                                                                         *)
(* A handler is a goroutine; it is modelled as a slot of `req` that moves  *)
(* from one external call (Redis, CockroachDB) to the next, so that other  *)
(* handlers and the hydrators interleave exactly where the code blocks.    *)
(***************************************************************************)
EXTENDS Naturals, Integers, Sequences, FiniteSets, TLC

\* ------------------------------------------------------------------ bounds
\* Number of concurrent request handlers (goroutines) of the model.
NProcs == 2
\* Each server's clock is read at most MaxTime - 1 times (values 1..MaxTime-1).
MaxTime == 3
\* The log holds at most MaxLog records.
MaxLog == 2
\* Length of the event sequences the stand-alone consumer is run on.
MaxEvents == 3
\* Length of the logs the stand-alone reads are run on.
MaxRows == 2
\* The count of log queries saturates at QueryCap.
QueryCap == 2

Regions == {"us-east", "us-west"}
Keys == {"k"}
Values == {"v1", "v2"}
Procs == 1..NProcs

\* What redisClient.Get answers with redis.Nil for: no entry.
NoEntry == "<nil>"

\* A PUT body that json.NewDecoder(r.Body).Decode rejects.
BadBody == "<undecodable>"

\* The one server of the synchronous-cache design (localhost:8080).
Local == "us-east"

VARIABLES
  log,       \* kv_log: the rows in commit order, each [key, value, ts, deleted]
  cache,     \* cache[r][k]: the Redis of region r
  clock,     \* clock[r]: what time.Now() returns next on the server of region r
  hpos,      \* hpos[r]: how many changefeed rows the hydrator of r has consumed
  req,       \* req[p]: the handler goroutine p (its position and locals)
  keyLocks,  \* keyLocks[k]: the mutex stored in the sync.Map for k, or 0
  holder,    \* holder[m]: the handler that holds mutex m, or 0
  lastEvt,   \* lastEvt[r][k]: the log index of the event last applied to k at r
  runLen,    \* runLen[r][k]: how many times in a row that event was applied
  cache0,    \* the cache the stand-alone consumer started from
  queries,   \* queries[k]: log queries answered for k since its last append
  faulted,   \* whether a Redis or CockroachDB call has failed so far
  running,   \* running[r]: whether the hydrator process of region r is alive
  feed       \* the rows the changefeed query returns, as rows.Scan reads them

vars == <<log, cache, clock, hpos, req, keyLocks, holder, lastEvt, runLen,
          cache0, queries, faulted, running, feed>>

\* ------------------------------------------------------------- data model
\* LogEntry (the timestamp is the server's clock reading).
LogEntry(k, v, t, d) == [key |-> k, value |-> v, ts |-> t, deleted |-> d]

Idle == [pc |-> "idle", op |-> "NONE", region |-> "none", key |-> "",
         value |-> "", ts |-> 0, status |-> 0, body |-> "", quiet |-> 0,
         mu |-> 0]

\* Indices of the rows of l whose key is k (WHERE key = $1).
KeyRows(l, k) == {i \in 1..Len(l) : l[i].key = k}

\* The rows ORDER BY timestamp DESC LIMIT 1 may return: those no other row of
\* the key has a greater timestamp than (SQL leaves the order of ties open).
TopRows(l, k) == {i \in KeyRows(l, k) : \A j \in KeyRows(l, k) : l[j].ts <= l[i].ts}

NotFound == [value |-> "", found |-> FALSE]

\* A bug of the kind the query guards against: the row inserted last wins.
getLatestValueFromLog_LastInserted(l, k) ==
  IF KeyRows(l, k) = {} THEN {NotFound}
  ELSE LET i == CHOOSE x \in KeyRows(l, k) : \A y \in KeyRows(l, k) : y <= x
       IN {IF l[i].deleted THEN NotFound ELSE [value |-> l[i].value, found |-> TRUE]}

\* A query for which a key once deleted stays deleted.
getLatestValueFromLog_StickyTombstone(l, k) ==
  IF KeyRows(l, k) = {} \/ (\E i \in KeyRows(l, k) : l[i].deleted) THEN {NotFound}
  ELSE {[value |-> l[i].value, found |-> TRUE] : i \in TopRows(l, k)}

\* getLatestValueFromLog: the set of (value, found) answers the query can give
\* when it does not fail.
getLatestValueFromLog(l, k) ==
  IF KeyRows(l, k) = {} THEN {NotFound}
  ELSE {IF l[i].deleted THEN NotFound ELSE [value |-> l[i].value, found |-> TRUE]
          : i \in TopRows(l, k)}

\* ChangefeedMessage of a committed row: key, value, deleted (no timestamp).
ChangefeedMessage(row) == [key |-> row.key, value |-> row.value, deleted |-> row.deleted]

\* The loop without its msg.Deleted branch: every event is a Set.
ApplyChange_SetOnly(c, msg) == [c EXCEPT ![msg.key] = msg.value]

\* A consumer that invalidates the entry an event finds and sets a missing one.
ApplyChange_InvalidateOnUpdate(c, msg) ==
  IF msg.deleted \/ c[msg.key] # NoEntry THEN [c EXCEPT ![msg.key] = NoEntry]
  ELSE [c EXCEPT ![msg.key] = msg.value]

\* The hydrator's effect on one Redis: Del on a tombstone, Set otherwise.
ApplyChange(c, msg) ==
  IF msg.deleted THEN [c EXCEPT ![msg.key] = NoEntry]
  ELSE [c EXCEPT ![msg.key] = msg.value]

\* ----------------------------------------------------------------- Init
\* The servers' clocks are not synchronised: each region's clock starts
\* somewhere of its own (the first region's is taken as the reference).
Init ==
  /\ log = <<>>
  /\ cache = [r \in Regions |-> [k \in Keys |-> NoEntry]]
  /\ clock \in {c \in [Regions -> 1..(MaxTime - 1)] : c[Local] = 1}
  /\ hpos = [r \in Regions |-> 0]
  /\ req = [p \in Procs |-> Idle]
  /\ keyLocks = [k \in Keys |-> 0]
  /\ holder = [m \in Procs |-> 0]
  /\ lastEvt = [r \in Regions |-> [k \in Keys |-> 0]]
  /\ runLen = [r \in Regions |-> [k \in Keys |-> 0]]
  /\ cache0 = cache
  /\ queries = [k \in Keys |-> 0]
  /\ faulted = FALSE
  /\ running = [r \in Regions |-> TRUE]
  /\ feed = <<>>

syncVars == <<keyLocks, holder>>
ghostVars == <<lastEvt, runLen, cache0>>

\* --------------------------------------------- CDC server: src/server
\* A handler that wrote its response: only what the client sees is kept.
Done(rq, st, b) == [Idle EXCEPT !.pc = "done", !.op = rq.op, !.region = rq.region,
                                !.key = rq.key, !.status = st, !.body = b,
                                !.quiet = rq.quiet]

WriteInFlight == \E q \in Procs : req[q].op \in {"PUT", "DELETE"} /\ req[q].pc # "done"

\* A write is issued: no request, running or answered, is any longer one that
\* no write overlaps or follows.
NoteWrite(rq) == [q \in Procs |-> IF rq[q].pc = "idle" THEN rq[q] ELSE [rq[q] EXCEPT !.quiet = 0]]

\* How a write starts: 1 when no other write is in flight, else 0.
WriteQuiet == IF WriteInFlight THEN 0 ELSE 1

\* How a read starts: 0 a write is in flight, 1 none is, 2 none is and every
\* hydrator has consumed the whole log.
QuietLevel == IF WriteInFlight THEN 0
              ELSE IF \A r \in Regions : hpos[r] = Len(log) THEN 2 ELSE 1

\* handlePut up to the append: the body decodes, the entry is stamped with
\* time.Now() of this server.
StartPut(p, r, k, v) ==
  /\ req[p].pc = "idle"
  /\ clock[r] < MaxTime
  /\ req' = [NoteWrite(req) EXCEPT ![p] = [Idle EXCEPT !.pc = "put_append", !.op = "PUT",
                                  !.region = r, !.key = k, !.value = v, !.ts = clock[r],
                                  !.quiet = WriteQuiet]]
  /\ clock' = [clock EXCEPT ![r] = @ + 1]
  /\ UNCHANGED <<log, cache, hpos, queries, faulted, syncVars, ghostVars, running, feed>>

\* handlePut with a body json cannot decode: 400, nothing else.
RejectPut(p, r, k) ==
  /\ req[p].pc = "idle"
  /\ req' = [req EXCEPT ![p] = [Idle EXCEPT !.pc = "done", !.op = "PUT",
                                  !.region = r, !.key = k, !.value = BadBody,
                                  !.status = 400]]
  /\ UNCHANGED <<log, cache, clock, hpos, queries, faulted, syncVars, ghostVars, running, feed>>

\* appendToLog succeeds: the row is committed; 201 with the entry.
PutAppendOk(p) ==
  /\ req[p].pc = "put_append"
  /\ Len(log) < MaxLog
  /\ log' = Append(log, LogEntry(req[p].key, req[p].value, req[p].ts, FALSE))
  /\ req' = [req EXCEPT ![p] = Done(@, 201, @.value)]
  /\ UNCHANGED <<cache, clock, hpos, queries, faulted, syncVars, ghostVars, running, feed>>

\* appendToLog fails: 500, no row.
PutAppendErr(p) ==
  /\ req[p].pc = "put_append"
  /\ req' = [req EXCEPT ![p] = Done(@, 500, "")]
  /\ faulted' = TRUE
  /\ UNCHANGED <<log, cache, clock, hpos, queries, syncVars, ghostVars, running, feed>>

\* handleDelete up to the append: a tombstone stamped with time.Now().
StartDelete(p, r, k) ==
  /\ req[p].pc = "idle"
  /\ clock[r] < MaxTime
  /\ req' = [NoteWrite(req) EXCEPT ![p] = [Idle EXCEPT !.pc = "del_append", !.op = "DELETE",
                                  !.region = r, !.key = k, !.value = "", !.ts = clock[r],
                                  !.quiet = WriteQuiet]]
  /\ clock' = [clock EXCEPT ![r] = @ + 1]
  /\ UNCHANGED <<log, cache, hpos, queries, faulted, syncVars, ghostVars, running, feed>>

\* A delete that removes the key's rows instead of appending a tombstone.
DelAppendOk_Purge(p) ==
  /\ req[p].pc = "del_append"
  /\ log' = SelectSeq(log, LAMBDA e : e.key # req[p].key)
  /\ req' = [req EXCEPT ![p] = Done(@, 200, "")]
  /\ UNCHANGED <<cache, clock, hpos, queries, faulted, syncVars, ghostVars, running, feed>>

\* appendToLog of the tombstone succeeds: 200.
DelAppendOk(p) ==
  /\ req[p].pc = "del_append"
  /\ Len(log) < MaxLog
  /\ log' = Append(log, LogEntry(req[p].key, "", req[p].ts, TRUE))
  /\ req' = [req EXCEPT ![p] = Done(@, 200, "")]
  /\ UNCHANGED <<cache, clock, hpos, queries, faulted, syncVars, ghostVars, running, feed>>

\* appendToLog of the tombstone fails: 500.
DelAppendErr(p) ==
  /\ req[p].pc = "del_append"
  /\ req' = [req EXCEPT ![p] = Done(@, 500, "")]
  /\ faulted' = TRUE
  /\ UNCHANGED <<log, cache, clock, hpos, queries, syncVars, ghostVars, running, feed>>

\* handleGet enters: the key is taken from the path.
StartGet(p, r, k) ==
  /\ req[p].pc = "idle"
  /\ req' = [req EXCEPT ![p] = [Idle EXCEPT !.pc = "get_cache", !.op = "GET",
                                  !.region = r, !.key = k, !.quiet = QuietLevel]]
  /\ UNCHANGED <<log, cache, clock, hpos, queries, faulted, syncVars, ghostVars, running, feed>>

\* redisClient.Get answers with a value: 200 from the cache.
GetCacheHit(p) ==
  /\ req[p].pc = "get_cache"
  /\ cache[req[p].region][req[p].key] # NoEntry
  /\ req' = [req EXCEPT ![p] = Done(@, 200, cache[@.region][@.key])]
  /\ UNCHANGED <<log, cache, clock, hpos, queries, faulted, syncVars, ghostVars, running, feed>>

\* redisClient.Get answers redis.Nil: on to the log.
GetCacheMiss(p) ==
  /\ req[p].pc = "get_cache"
  /\ cache[req[p].region][req[p].key] = NoEntry
  /\ req' = [req EXCEPT ![p].pc = "get_log"]
  /\ UNCHANGED <<log, cache, clock, hpos, queries, faulted, syncVars, ghostVars, running, feed>>

\* redisClient.Get fails (Redis unreachable): err != nil, on to the log.
GetCacheErr(p) ==
  /\ req[p].pc = "get_cache"
  /\ req' = [req EXCEPT ![p].pc = "get_log"]
  /\ faulted' = TRUE
  /\ UNCHANGED <<log, cache, clock, hpos, queries, syncVars, ghostVars, running, feed>>

\* A handler that does not look at found: dbValue goes to the cache as it is.
AfterQuery_IgnoreFound(rq, res) == [rq EXCEPT !.pc = "get_set", !.value = res.value]

\* What handleGet does with the answer of getLatestValueFromLog: 404 when not
\* found, else on to the cache population with dbValue.
AfterQuery(rq, res) == IF res.found THEN [rq EXCEPT !.pc = "get_set", !.value = res.value]
                       ELSE Done(rq, 404, "")

\* A handler that remembers the absence of a key: "not found" is written to the
\* cache as an empty entry before the 404.
GetLogOk_NegativeCache(p) ==
  /\ req[p].pc = "get_log"
  /\ \E res \in getLatestValueFromLog(log, req[p].key) :
       /\ req' = [req EXCEPT ![p] = AfterQuery(@, res)]
       /\ cache' = IF res.found THEN cache
                   ELSE [cache EXCEPT ![req[p].region][req[p].key] = ""]
  /\ UNCHANGED <<log, clock, hpos, queries, faulted, syncVars, ghostVars, running, feed>>

\* getLatestValueFromLog answers.
GetLogOk(p) ==
  /\ req[p].pc = "get_log"
  /\ \E res \in getLatestValueFromLog(log, req[p].key) :
       req' = [req EXCEPT ![p] = AfterQuery(@, res)]
  /\ UNCHANGED <<log, cache, clock, hpos, queries, faulted, syncVars, ghostVars, running, feed>>

\* getLatestValueFromLog fails: 500.
GetLogErr(p) ==
  /\ req[p].pc = "get_log"
  /\ req' = [req EXCEPT ![p] = Done(@, 500, "")]
  /\ faulted' = TRUE
  /\ UNCHANGED <<log, cache, clock, hpos, queries, syncVars, ghostVars, running, feed>>

\* A fallback that answers without populating the cache.
GetSetOk_NoPopulate(p) ==
  /\ req[p].pc = "get_set"
  /\ req' = [req EXCEPT ![p] = Done(@, 200, @.value)]
  /\ UNCHANGED <<log, cache, clock, hpos, queries, faulted, syncVars, ghostVars, running, feed>>

\* redisClient.Set stores dbValue; 200 with dbValue.
GetSetOk(p) ==
  /\ req[p].pc = "get_set"
  /\ cache' = [cache EXCEPT ![req[p].region][req[p].key] = req[p].value]
  /\ req' = [req EXCEPT ![p] = Done(@, 200, @.value)]
  /\ UNCHANGED <<log, clock, hpos, queries, faulted, syncVars, ghostVars, running, feed>>

\* redisClient.Set fails: logged, 200 with dbValue all the same.
GetSetErr(p) ==
  /\ req[p].pc = "get_set"
  /\ req' = [req EXCEPT ![p] = Done(@, 200, @.value)]
  /\ faulted' = TRUE
  /\ UNCHANGED <<log, cache, clock, hpos, queries, syncVars, ghostVars, running, feed>>

\* The response has been written and the goroutine ends.
Return(p) ==
  /\ req[p].pc = "done"
  /\ req' = [req EXCEPT ![p] = Idle]
  /\ UNCHANGED <<log, cache, clock, hpos, queries, faulted, syncVars, ghostVars, running, feed>>

\* ----------------------------------------- hydrator: src/hydrator
\* A consumer that skips an event older than the one it applied last to the key.
HydratorApply_NewerOnly(r, i) ==
  /\ running[r]
  /\ cache' = IF /\ lastEvt[r][log[i].key] # 0
                 /\ log[lastEvt[r][log[i].key]].ts > log[i].ts
              THEN cache
              ELSE [cache EXCEPT ![r] = ApplyChange(@, ChangefeedMessage(log[i]))]
  /\ UNCHANGED <<log, clock, req, queries, faulted, syncVars, running, feed>>

\* One turn of the changefeed loop on row i of the feed, at region r.
HydratorApply(r, i) ==
  /\ running[r]
  /\ cache' = [cache EXCEPT ![r] = ApplyChange(@, ChangefeedMessage(log[i]))]
  /\ UNCHANGED <<log, clock, req, queries, faulted, syncVars, running, feed>>

\* The next committed row is delivered and applied.
Hydrate(r) ==
  /\ hpos[r] < Len(log)
  /\ HydratorApply(r, hpos[r] + 1)
  /\ hpos' = [hpos EXCEPT ![r] = @ + 1]
  /\ UNCHANGED ghostVars

\* The same turn when Redis refuses the command: the result of Del/Set is
\* not looked at, the loop goes on to the next row.
HydrateErr(r) ==
  /\ running[r]
  /\ hpos[r] < Len(log)
  /\ hpos' = [hpos EXCEPT ![r] = @ + 1]
  /\ faulted' = TRUE
  /\ UNCHANGED <<log, cache, clock, req, queries, syncVars, ghostVars, running, feed>>

\* The subscription breaks: rows.Next() returns false, the loop ends and main
\* returns; nothing in the program subscribes again.
Disconnect(r) ==
  /\ running[r]
  /\ running' = [running EXCEPT ![r] = FALSE]
  /\ UNCHANGED <<log, cache, clock, hpos, req, queries, faulted, syncVars, ghostVars, feed>>

\* The consumer alone, with the event last applied to each key written down.
HydrateAlone(r) ==
  /\ hpos[r] < Len(log)
  /\ HydratorApply(r, hpos[r] + 1)
  /\ hpos' = [hpos EXCEPT ![r] = @ + 1]
  /\ lastEvt' = [lastEvt EXCEPT ![r][log[hpos[r] + 1].key] = hpos[r] + 1]
  /\ runLen' = [runLen EXCEPT ![r][log[hpos[r] + 1].key] = 1]
  /\ UNCHANGED cache0

\* The feed is at-least-once: a row already delivered is delivered again.
RedeliverAlone(r, i) ==
  /\ i \in 1..hpos[r]
  /\ HydratorApply(r, i)
  /\ lastEvt' = [lastEvt EXCEPT ![r][log[i].key] = i]
  /\ runLen' = [runLen EXCEPT ![r][log[i].key] =
                   IF lastEvt[r][log[i].key] = i THEN 2 ELSE 1]
  /\ UNCHANGED <<hpos, cache0>>

\* The CDC deployment while Redis and CockroachDB answer every call: the
\* servers of all regions, and one hydrator per region.
Next ==
  \/ \E p \in Procs, r \in Regions, k \in Keys, v \in Values : StartPut(p, r, k, v)
  \/ \E p \in Procs, r \in Regions, k \in Keys : RejectPut(p, r, k)
  \/ \E p \in Procs : PutAppendOk(p)
  \/ \E p \in Procs, r \in Regions, k \in Keys : StartDelete(p, r, k)
  \/ \E p \in Procs : DelAppendOk(p)
  \/ \E p \in Procs, r \in Regions, k \in Keys : StartGet(p, r, k)
  \/ \E p \in Procs : GetCacheHit(p)
  \/ \E p \in Procs : GetCacheMiss(p)
  \/ \E p \in Procs : GetLogOk(p)
  \/ \E p \in Procs : GetSetOk(p)
  \/ \E p \in Procs : Return(p)
  \/ \E r \in Regions : Hydrate(r)

Spec == Init /\ [][Next]_vars

\* ------------------------- synchronous-cache server: src/kv_store_go.go
\* A request whose key is empty: 400 before anything else (all three handlers).
SRejectKey(p, o) ==
  /\ req[p].pc = "idle"
  /\ req' = [req EXCEPT ![p] = [Idle EXCEPT !.pc = "done", !.op = o, !.region = Local,
                                  !.status = 400]]
  /\ UNCHANGED <<log, cache, clock, hpos, queries, faulted, syncVars, ghostVars, running, feed>>

\* handlePut with a body that does not decode: 400.
SRejectBody(p, k) ==
  /\ req[p].pc = "idle"
  /\ req' = [req EXCEPT ![p] = [Idle EXCEPT !.pc = "done", !.op = "PUT", !.region = Local,
                                  !.key = k, !.value = BadBody, !.status = 400]]
  /\ UNCHANGED <<log, cache, clock, hpos, queries, faulted, syncVars, ghostVars, running, feed>>

\* handlePut with a body that decodes to the empty value: 400 as well.
SRejectValue(p, k) ==
  /\ req[p].pc = "idle"
  /\ req' = [req EXCEPT ![p] = [Idle EXCEPT !.pc = "done", !.op = "PUT", !.region = Local,
                                  !.key = k, !.value = "", !.status = 400]]
  /\ UNCHANGED <<log, cache, clock, hpos, queries, faulted, syncVars, ghostVars, running, feed>>

\* handlePut up to the append.
SStartPut(p, k, v) ==
  /\ req[p].pc = "idle"
  /\ clock[Local] < MaxTime
  /\ req' = [NoteWrite(req) EXCEPT ![p] = [Idle EXCEPT !.pc = "s_put_append", !.op = "PUT",
                                  !.region = Local, !.key = k, !.value = v,
                                  !.ts = clock[Local], !.quiet = WriteQuiet]]
  /\ clock' = [clock EXCEPT ![Local] = @ + 1]
  /\ UNCHANGED <<log, cache, hpos, queries, faulted, syncVars, ghostVars, running, feed>>

\* appendToLog succeeds: on to the cache update.
SPutAppendOk(p) ==
  /\ req[p].pc = "s_put_append"
  /\ Len(log) < MaxLog
  /\ log' = Append(log, LogEntry(req[p].key, req[p].value, req[p].ts, FALSE))
  /\ req' = [req EXCEPT ![p].pc = "s_put_cache"]
  /\ queries' = [queries EXCEPT ![req[p].key] = 0]
  /\ UNCHANGED <<cache, clock, hpos, faulted, syncVars, ghostVars, running, feed>>

\* An append failure the handler does not return from: on to the cache update.
SPutAppendErr_FallThrough(p) ==
  /\ req[p].pc = "s_put_append"
  /\ req' = [req EXCEPT ![p].pc = "s_put_cache"]
  /\ faulted' = TRUE
  /\ UNCHANGED <<log, cache, clock, hpos, queries, syncVars, ghostVars, running, feed>>

\* appendToLog fails: 500, no row, the cache is not touched.
SPutAppendErr(p) ==
  /\ req[p].pc = "s_put_append"
  /\ req' = [req EXCEPT ![p] = Done(@, 500, "")]
  /\ faulted' = TRUE
  /\ UNCHANGED <<log, cache, clock, hpos, queries, syncVars, ghostVars, running, feed>>

\* redisClient.Set of the written value; 201 with the entry.
SPutCacheOk(p) ==
  /\ req[p].pc = "s_put_cache"
  /\ cache' = [cache EXCEPT ![Local][req[p].key] = req[p].value]
  /\ req' = [req EXCEPT ![p] = Done(@, 201, @.value)]
  /\ UNCHANGED <<log, clock, hpos, queries, faulted, syncVars, ghostVars, running, feed>>

\* redisClient.Set fails: logged, 201 all the same.
SPutCacheErr(p) ==
  /\ req[p].pc = "s_put_cache"
  /\ req' = [req EXCEPT ![p] = Done(@, 201, @.value)]
  /\ faulted' = TRUE
  /\ UNCHANGED <<log, cache, clock, hpos, queries, syncVars, ghostVars, running, feed>>

\* handleDelete up to the append of the tombstone.
SStartDelete(p, k) ==
  /\ req[p].pc = "idle"
  /\ clock[Local] < MaxTime
  /\ req' = [NoteWrite(req) EXCEPT ![p] = [Idle EXCEPT !.pc = "s_del_append", !.op = "DELETE",
                                  !.region = Local, !.key = k, !.value = "",
                                  !.ts = clock[Local], !.quiet = WriteQuiet]]
  /\ clock' = [clock EXCEPT ![Local] = @ + 1]
  /\ UNCHANGED <<log, cache, hpos, queries, faulted, syncVars, ghostVars, running, feed>>

SDelAppendOk(p) ==
  /\ req[p].pc = "s_del_append"
  /\ Len(log) < MaxLog
  /\ log' = Append(log, LogEntry(req[p].key, "", req[p].ts, TRUE))
  /\ req' = [req EXCEPT ![p].pc = "s_del_cache"]
  /\ queries' = [queries EXCEPT ![req[p].key] = 0]
  /\ UNCHANGED <<cache, clock, hpos, faulted, syncVars, ghostVars, running, feed>>

SDelAppendErr(p) ==
  /\ req[p].pc = "s_del_append"
  /\ req' = [req EXCEPT ![p] = Done(@, 500, "")]
  /\ faulted' = TRUE
  /\ UNCHANGED <<log, cache, clock, hpos, queries, syncVars, ghostVars, running, feed>>

\* redisClient.Del invalidates the entry; 200.
SDelCacheOk(p) ==
  /\ req[p].pc = "s_del_cache"
  /\ cache' = [cache EXCEPT ![Local][req[p].key] = NoEntry]
  /\ req' = [req EXCEPT ![p] = Done(@, 200, "")]
  /\ UNCHANGED <<log, clock, hpos, queries, faulted, syncVars, ghostVars, running, feed>>

SDelCacheErr(p) ==
  /\ req[p].pc = "s_del_cache"
  /\ req' = [req EXCEPT ![p] = Done(@, 200, "")]
  /\ faulted' = TRUE
  /\ UNCHANGED <<log, cache, clock, hpos, queries, syncVars, ghostVars, running, feed>>

SStartGet(p, k) ==
  /\ req[p].pc = "idle"
  /\ req' = [req EXCEPT ![p] = [Idle EXCEPT !.pc = "s_get_cache", !.op = "GET",
                                  !.region = Local, !.key = k, !.quiet = QuietLevel]]
  /\ UNCHANGED <<log, cache, clock, hpos, queries, faulted, syncVars, ghostVars, running, feed>>

\* 1. redisClient.Get: a value, 200 from the cache.
SGetCacheHit(p) ==
  /\ req[p].pc = "s_get_cache"
  /\ cache[Local][req[p].key] # NoEntry
  /\ req' = [req EXCEPT ![p] = Done(@, 200, cache[Local][@.key])]
  /\ UNCHANGED <<log, cache, clock, hpos, queries, faulted, syncVars, ghostVars, running, feed>>

\* redis.Nil: the miss path.
SGetCacheMiss(p) ==
  /\ req[p].pc = "s_get_cache"
  /\ cache[Local][req[p].key] = NoEntry
  /\ req' = [req EXCEPT ![p].pc = "s_get_los"]
  /\ UNCHANGED <<log, cache, clock, hpos, queries, faulted, syncVars, ghostVars, running, feed>>

\* Any other Redis error: 500.
SGetCacheErr(p) ==
  /\ req[p].pc = "s_get_cache"
  /\ req' = [req EXCEPT ![p] = Done(@, 500, "")]
  /\ faulted' = TRUE
  /\ UNCHANGED <<log, cache, clock, hpos, queries, syncVars, ghostVars, running, feed>>

\* &sync.Mutex{}: a mutex no goroutine and no map entry refers to.
NewMutex == CHOOSE m \in Procs : /\ \A q \in Procs : req[q].mu # m
                                 /\ \A k \in Keys : keyLocks[k] # m

\* keyLocks.LoadOrStore(key, &sync.Mutex{}): the stored mutex, or the new one
\* after storing it.
SGetLoadOrStore(p) ==
  /\ req[p].pc = "s_get_los"
  /\ IF keyLocks[req[p].key] # 0
     THEN /\ req' = [req EXCEPT ![p].pc = "s_get_lock", ![p].mu = keyLocks[req[p].key]]
          /\ UNCHANGED keyLocks
     ELSE /\ req' = [req EXCEPT ![p].pc = "s_get_lock", ![p].mu = NewMutex]
          /\ keyLocks' = [keyLocks EXCEPT ![req[p].key] = NewMutex]
  /\ UNCHANGED <<log, cache, clock, hpos, queries, faulted, holder, ghostVars, running, feed>>

\* Mutex.Lock that does not wait.
MutexFree_NoWait(m) == TRUE

\* Mutex.Lock returns only when no goroutine holds the mutex.
MutexFree(m) == holder[m] = 0

SGetLock(p) ==
  /\ req[p].pc = "s_get_lock"
  /\ MutexFree(req[p].mu)
  /\ holder' = [holder EXCEPT ![req[p].mu] = p]
  /\ req' = [req EXCEPT ![p].pc = "s_get_recheck"]
  /\ UNCHANGED <<log, cache, clock, hpos, queries, faulted, keyLocks, ghostVars, running, feed>>

\* The response is written; what is left are the deferred calls.
Deferred(rq, st, b) == [rq EXCEPT !.pc = "s_get_unmap", !.status = st, !.body = b, !.value = ""]

\* A second lookup whose value is ignored: on to the log query.
SGetRecheckHit_Requery(p) ==
  /\ req[p].pc = "s_get_recheck"
  /\ cache[Local][req[p].key] # NoEntry
  /\ req' = [req EXCEPT ![p].pc = "s_get_log"]
  /\ UNCHANGED <<log, cache, clock, hpos, queries, faulted, syncVars, ghostVars, running, feed>>

\* The second redisClient.Get, under the lock: a value, 200.
SGetRecheckHit(p) ==
  /\ req[p].pc = "s_get_recheck"
  /\ cache[Local][req[p].key] # NoEntry
  /\ req' = [req EXCEPT ![p] = Deferred(@, 200, cache[Local][@.key])]
  /\ UNCHANGED <<log, cache, clock, hpos, queries, faulted, syncVars, ghostVars, running, feed>>

SGetRecheckMiss(p) ==
  /\ req[p].pc = "s_get_recheck"
  /\ cache[Local][req[p].key] = NoEntry
  /\ req' = [req EXCEPT ![p].pc = "s_get_log"]
  /\ UNCHANGED <<log, cache, clock, hpos, queries, faulted, syncVars, ghostVars, running, feed>>

\* The second redisClient.Get fails: err != nil, on to the log.
SGetRecheckErr(p) ==
  /\ req[p].pc = "s_get_recheck"
  /\ req' = [req EXCEPT ![p].pc = "s_get_log"]
  /\ faulted' = TRUE
  /\ UNCHANGED <<log, cache, clock, hpos, queries, syncVars, ghostVars, running, feed>>

\* 2. getLatestValueFromLog answers: 404 when not found, else on to step 3.
SGetLogOk(p) ==
  /\ req[p].pc = "s_get_log"
  /\ \E res \in getLatestValueFromLog(log, req[p].key) :
       req' = [req EXCEPT ![p] = IF res.found
                                   THEN [@ EXCEPT !.pc = "s_get_set", !.value = res.value]
                                   ELSE Deferred(@, 404, "")]
  /\ queries' = [queries EXCEPT ![req[p].key] = IF @ < QueryCap THEN @ + 1 ELSE @]
  /\ UNCHANGED <<log, cache, clock, hpos, faulted, syncVars, ghostVars, running, feed>>

\* A log error that answers 500 and returns with the mutex still locked.
SGetLogErr_NoRelease(p) ==
  /\ req[p].pc = "s_get_log"
  /\ req' = [req EXCEPT ![p] = Done(@, 500, "")]
  /\ faulted' = TRUE
  /\ UNCHANGED <<log, cache, clock, hpos, queries, syncVars, ghostVars, running, feed>>

\* getLatestValueFromLog fails: 500; the deferred calls follow.
SGetLogErr(p) ==
  /\ req[p].pc = "s_get_log"
  /\ req' = [req EXCEPT ![p] = Deferred(@, 500, "")]
  /\ faulted' = TRUE
  /\ UNCHANGED <<log, cache, clock, hpos, queries, syncVars, ghostVars, running, feed>>

\* 3. redisClient.Set populates the cache; 200 with dbValue.
SGetSetOk(p) ==
  /\ req[p].pc = "s_get_set"
  /\ cache' = [cache EXCEPT ![Local][req[p].key] = req[p].value]
  /\ req' = [req EXCEPT ![p] = Deferred(@, 200, @.value)]
  /\ UNCHANGED <<log, clock, hpos, queries, faulted, syncVars, ghostVars, running, feed>>

SGetSetErr(p) ==
  /\ req[p].pc = "s_get_set"
  /\ req' = [req EXCEPT ![p] = Deferred(@, 200, @.value)]
  /\ faulted' = TRUE
  /\ UNCHANGED <<log, cache, clock, hpos, queries, syncVars, ghostVars, running, feed>>

\* defer keyLocks.Delete(key): runs first, removes whatever the map holds.
SGetUnmap(p) ==
  /\ req[p].pc = "s_get_unmap"
  /\ keyLocks' = [keyLocks EXCEPT ![req[p].key] = 0]
  /\ req' = [req EXCEPT ![p].pc = "s_get_unlock"]
  /\ UNCHANGED <<log, cache, clock, hpos, queries, faulted, holder, ghostVars, running, feed>>

\* defer mu.Unlock(), and the handler returns.
SGetUnlock(p) ==
  /\ req[p].pc = "s_get_unlock"
  /\ holder' = [holder EXCEPT ![req[p].mu] = 0]
  /\ req' = [req EXCEPT ![p] = Done(@, @.status, @.body)]
  /\ UNCHANGED <<log, cache, clock, hpos, queries, faulted, keyLocks, ghostVars, running, feed>>

\* The synchronous-cache server while Redis and CockroachDB answer every call.
SyncNext ==
  \/ \E p \in Procs, o \in {"PUT", "GET", "DELETE"} : SRejectKey(p, o)
  \/ \E p \in Procs, k \in Keys : SRejectBody(p, k)
  \/ \E p \in Procs, k \in Keys : SRejectValue(p, k)
  \/ \E p \in Procs, k \in Keys, v \in Values : SStartPut(p, k, v)
  \/ \E p \in Procs : SPutAppendOk(p)
  \/ \E p \in Procs : SPutCacheOk(p)
  \/ \E p \in Procs, k \in Keys : SStartDelete(p, k)
  \/ \E p \in Procs : SDelAppendOk(p)
  \/ \E p \in Procs : SDelCacheOk(p)
  \/ \E p \in Procs, k \in Keys : SStartGet(p, k)
  \/ \E p \in Procs : SGetCacheHit(p)
  \/ \E p \in Procs : SGetCacheMiss(p)
  \/ \E p \in Procs : SGetLoadOrStore(p)
  \/ \E p \in Procs : SGetLock(p)
  \/ \E p \in Procs : SGetRecheckHit(p)
  \/ \E p \in Procs : SGetRecheckMiss(p)
  \/ \E p \in Procs : SGetLogOk(p)
  \/ \E p \in Procs : SGetSetOk(p)
  \/ \E p \in Procs : SGetUnmap(p)
  \/ \E p \in Procs : SGetUnlock(p)
  \/ \E p \in Procs : Return(p)

SpecSync == Init /\ [][SyncNext]_vars

\* ------------------------------------------------ further specifications
\* Rows a log can hold, and the logs of at most n rows.
Rows == {LogEntry(k, v, t, FALSE) : k \in Keys, v \in Values, t \in 1..(MaxTime - 1)}
        \cup {LogEntry(k, "", t, TRUE) : k \in Keys, t \in 1..(MaxTime - 1)}
Logs(n) == UNION {[1..m -> Rows] : m \in 0..n}

\* The contents a region's caches can have.
Caches == [Regions -> [Keys -> {NoEntry} \cup Values]]

\* Reads alone at one CDC server, over any log and any content of its cache.
InitRead ==
  /\ log \in Logs(MaxRows)
  /\ cache \in {c \in Caches : \A r \in Regions \ {Local} : \A k \in Keys : c[r][k] = NoEntry}
  /\ clock = [r \in Regions |-> MaxTime]
  /\ hpos = [r \in Regions |-> Len(log)]
  /\ req = [p \in Procs |-> Idle]
  /\ keyLocks = [k \in Keys |-> 0]
  /\ holder = [m \in Procs |-> 0]
  /\ lastEvt = [r \in Regions |-> [k \in Keys |-> 0]]
  /\ runLen = [r \in Regions |-> [k \in Keys |-> 0]]
  /\ cache0 = cache
  /\ queries = [k \in Keys |-> 0]
  /\ faulted = FALSE
  /\ running = [r \in Regions |-> TRUE]
  /\ feed = <<>>

ReadNext ==
  \/ \E p \in Procs, k \in Keys : StartGet(p, Local, k)
  \/ \E p \in Procs : GetCacheHit(p)
  \/ \E p \in Procs : GetCacheMiss(p)
  \/ \E p \in Procs : GetLogOk(p)
  \/ \E p \in Procs : GetSetOk(p)
  \/ \E p \in Procs : Return(p)

SpecRead == InitRead /\ [][ReadNext]_vars

\* The consumer alone, on any feed of at most MaxEvents rows and any cache.
InitHydrate ==
  /\ log \in {l \in Logs(MaxEvents) : \A i \in 1..Len(l) : l[i].ts = 1}
  /\ cache \in Caches
  /\ clock = [r \in Regions |-> MaxTime]
  /\ hpos = [r \in Regions |-> 0]
  /\ req = [p \in Procs |-> Idle]
  /\ keyLocks = [k \in Keys |-> 0]
  /\ holder = [m \in Procs |-> 0]
  /\ lastEvt = [r \in Regions |-> [k \in Keys |-> 0]]
  /\ runLen = [r \in Regions |-> [k \in Keys |-> 0]]
  /\ cache0 = cache
  /\ queries = [k \in Keys |-> 0]
  /\ faulted = FALSE
  /\ running = [r \in Regions |-> TRUE]
  /\ feed = <<>>

HydrateNext ==
  \/ \E r \in Regions : HydrateAlone(r)
  \/ \E r \in Regions, i \in 1..MaxEvents : RedeliverAlone(r, i)

SpecHydrate == InitHydrate /\ [][HydrateNext]_vars

\* Reads alone (synchronous-cache server), against an empty cache and a log
\* that holds one row for the key.
InitMiss ==
  /\ log \in {l \in Logs(1) : Len(l) = 1}
  /\ cache = [r \in Regions |-> [k \in Keys |-> NoEntry]]
  /\ clock = [r \in Regions |-> MaxTime]
  /\ hpos = [r \in Regions |-> 0]
  /\ req = [p \in Procs |-> Idle]
  /\ keyLocks = [k \in Keys |-> 0]
  /\ holder = [m \in Procs |-> 0]
  /\ lastEvt = [r \in Regions |-> [k \in Keys |-> 0]]
  /\ runLen = [r \in Regions |-> [k \in Keys |-> 0]]
  /\ cache0 = cache
  /\ queries = [k \in Keys |-> 0]
  /\ faulted = FALSE
  /\ running = [r \in Regions |-> TRUE]
  /\ feed = <<>>

MissNext ==
  \/ \E p \in Procs, k \in Keys : SStartGet(p, k)
  \/ \E p \in Procs : SGetCacheHit(p)
  \/ \E p \in Procs : SGetCacheMiss(p)
  \/ \E p \in Procs : SGetLoadOrStore(p)
  \/ \E p \in Procs : SGetLock(p)
  \/ \E p \in Procs : SGetRecheckHit(p)
  \/ \E p \in Procs : SGetRecheckMiss(p)
  \/ \E p \in Procs : SGetLogOk(p)
  \/ \E p \in Procs : SGetSetOk(p)
  \/ \E p \in Procs : SGetUnmap(p)
  \/ \E p \in Procs : SGetUnlock(p)
  \/ \E p \in Procs : Return(p)

SpecMiss == InitMiss /\ [][MissNext]_vars

\* The CDC deployment while no Redis answers: every cache command fails.
CacheDownNext ==
  \/ \E p \in Procs, r \in Regions, k \in Keys, v \in Values : StartPut(p, r, k, v)
  \/ \E p \in Procs : PutAppendOk(p)
  \/ \E p \in Procs, r \in Regions, k \in Keys : StartDelete(p, r, k)
  \/ \E p \in Procs : DelAppendOk(p)
  \/ \E p \in Procs, r \in Regions, k \in Keys : StartGet(p, r, k)
  \/ \E p \in Procs : GetCacheErr(p)
  \/ \E p \in Procs : GetLogOk(p)
  \/ \E p \in Procs : GetSetErr(p)
  \/ \E p \in Procs : Return(p)
  \/ \E r \in Regions : HydrateErr(r)

SpecCacheDown == Init /\ [][CacheDownNext]_vars

\* ------------------------------------------------------------ properties
\* What the query answers for one row: not found for a tombstone.
Answer(row) == IF row.deleted THEN NotFound ELSE [value |-> row.value, found |-> TRUE]

\* A request that returned, with no write overlapping or following it.
QuietDone(p, o, st) ==
  /\ req[p].pc = "done"
  /\ req[p].op = o
  /\ req[p].status = st
  /\ req[p].quiet >= 1

\* C1 (read-your-tombstone): once a DELETE of k has answered 200, with no
\* other write overlapping or following it, the query for the latest value of
\* k reports not found, and a GET of k issued afterwards that falls back to
\* the log does not find a value (it answers 404).
C1_ReadYourTombstone ==
  \A p \in Procs :
    QuietDone(p, "DELETE", 200)
      => /\ getLatestValueFromLog(log, req[p].key) = {NotFound}
         /\ \A g \in Procs :
              (req[g].op = "GET" /\ req[g].key = req[p].key /\ req[g].quiet >= 1)
                => req[g].pc # "get_set"

\* C2 (last-write-wins by timestamp): when the rows of a key have distinct
\* timestamps, the query answers with the row of greatest timestamp, whatever
\* the order the rows were inserted in; a GET that fell back to the log holds
\* that row's value.
C2_LastWriteWins ==
  \A k \in Keys : \A i \in KeyRows(log, k) :
    (\A j \in KeyRows(log, k) \ {i} : log[j].ts < log[i].ts)
      => /\ getLatestValueFromLog(log, k) = {Answer(log[i])}
         /\ \A p \in Procs :
              (req[p].pc = "get_set" /\ req[p].key = k)
                => (~log[i].deleted /\ req[p].value = log[i].value)

\* C2 witness: the row of greatest timestamp was inserted before a row of a
\* smaller one with another value, and a GET has the query's answer in hand.
C2_Witness ==
  \E p \in Procs : \E i, j \in KeyRows(log, "k") :
    /\ i < j
    /\ log[i].ts > log[j].ts
    /\ \A x \in KeyRows(log, "k") \ {i} : log[x].ts < log[i].ts
    /\ ~log[i].deleted
    /\ ~log[j].deleted
    /\ log[i].value # log[j].value
    /\ req[p].pc = "get_set"
    /\ req[p].value = log[i].value

\* The key's one row of greatest timestamp is a live one with value v.
LatestIs(k, v) ==
  \E i \in KeyRows(log, k) :
    /\ \A j \in KeyRows(log, k) \ {i} : log[j].ts < log[i].ts
    /\ ~log[i].deleted
    /\ log[i].value = v

\* C3 (cache-miss fallback): a GET of k that finds no cache entry, while the
\* latest log record of k is a live one with value v, queries the log, sets
\* the cache entry of k to v and answers 200 with v.
C3_Fallback ==
  \A p \in Procs : \A v \in Values :
    LET k == req[p].key
        r == req[p].region
    IN /\ (req[p].pc = "get_cache" /\ cache[r][k] = NoEntry /\ req'[p] # req[p])
            => req'[p].pc = "get_log"
       /\ (req[p].pc = "get_log" /\ LatestIs(k, v) /\ req'[p] # req[p])
            => (req'[p].pc = "get_set" /\ req'[p].value = v)
       /\ (req[p].pc = "get_set" /\ LatestIs(k, v) /\ req'[p] # req[p])
            => /\ cache'[r][k] = v
               /\ req'[p].pc = "done"
               /\ req'[p].status = 200
               /\ req'[p].body = v

C3_CacheMissFallback == [][C3_Fallback]_vars

\* C3 witness: a GET has answered 200 with the latest value, the cache entry
\* it left holds that value, and the row it read is not the last one inserted.
C3_Witness ==
  \E p \in Procs : \E v \in Values :
    /\ req[p].pc = "done"
    /\ req[p].op = "GET"
    /\ req[p].status = 200
    /\ req[p].body = v
    /\ LatestIs(req[p].key, v)
    /\ cache[req[p].region][req[p].key] = v
    /\ cache0[req[p].region][req[p].key] = NoEntry
    /\ Len(log) >= 2
    /\ log[Len(log)].deleted

\* A GET of k that has answered, issued while no write was in flight and
\* followed by none.
QuietGet(g, k) ==
  /\ req[g].pc = "done"
  /\ req[g].op = "GET"
  /\ req[g].key = k
  /\ req[g].quiet >= 1

\* C4 (delete, then read): once a DELETE of k has answered 200 and no write of
\* k is issued afterwards, every GET of k issued afterwards answers 404,
\* whatever other GETs are running.
C4_GetAfterDelete ==
  \A p \in Procs :
    QuietDone(p, "DELETE", 200)
      => \A g \in Procs : QuietGet(g, req[p].key) => req[g].status = 404

\* C5 (read-your-writes): once a PUT of (k, v) has answered 201 and no write
\* of k is issued afterwards, every GET of k issued afterwards answers 200
\* with v, also when the cache held an older value of k.
C5_ReadYourWrites ==
  \A p \in Procs :
    QuietDone(p, "PUT", 201)
      => \A g \in Procs :
           QuietGet(g, req[p].key) => (req[g].status = 200 /\ req[g].body = req[p].body)

\* C6 (cross-region propagation): after a PUT or DELETE of k accepted in one
\* region, a GET of k issued in any region once every region's hydrator has
\* processed every change event answers 200 with the written value for a PUT
\* and 404 for a DELETE.
C6_CrossRegion ==
  \A p, g \in Procs :
    (QuietGet(g, req[p].key) /\ req[g].quiet = 2)
      => /\ QuietDone(p, "PUT", 201) => (req[g].status = 200 /\ req[g].body = req[p].body)
         /\ QuietDone(p, "DELETE", 200) => req[g].status = 404

\* What the cache holds for a key after an event: nothing after a tombstone.
EntryOf(row) == IF row.deleted THEN NoEntry ELSE row.value

\* C7 (hydration convergence): whatever events the consumer alone has applied,
\* the cache entry of k is decided by the event applied last to k: no entry
\* after a tombstone, the event's value otherwise (and the entry the cache
\* started with while no event of k was applied); so after v1, v2 and a
\* tombstone in that order there is no entry.
C7_HydrationConvergence ==
  \A r \in Regions : \A k \in Keys :
    IF lastEvt[r][k] = 0 THEN cache[r][k] = cache0[r][k]
    ELSE cache[r][k] = EntryOf(log[lastEvt[r][k]])

\* C7 witness: v1, v2 and a tombstone were applied in that order to a cache
\* that held an entry, and the entry is gone.
C7_Witness ==
  \E r \in Regions :
    /\ log = <<LogEntry("k", "v1", 1, FALSE), LogEntry("k", "v2", 1, FALSE),
               LogEntry("k", "", 1, TRUE)>>
    /\ hpos[r] = 3
    /\ lastEvt[r]["k"] = 3
    /\ cache0[r]["k"] # NoEntry
    /\ cache[r]["k"] = NoEntry

\* C8 (idempotent hydration): applying again the event that was applied last
\* leaves the cache as the first application left it, for a set and for a
\* tombstone, whatever the cache held.
C8_Reapply ==
  \A r \in Regions : \A i \in 1..MaxEvents :
    (RedeliverAlone(r, i) /\ lastEvt[r][log[i].key] = i) => cache' = cache

C8_IdempotentHydration == [][C8_Reapply]_vars

\* C8 witness: a set event was applied twice in a row to a cache that held
\* another value.
C8_Witness ==
  \E r \in Regions : \E k \in Keys :
    /\ runLen[r][k] = 2
    /\ ~log[lastEvt[r][k]].deleted
    /\ cache0[r][k] \notin {NoEntry, log[lastEvt[r][k]].value}
    /\ cache[r][k] = log[lastEvt[r][k]].value

\* The log's one row of the key is a live one.
LiveRecord(k) == \A i \in KeyRows(log, k) : ~log[i].deleted

C10_WriteWithoutCache ==
  \A p \in Procs :
    /\ (req[p].pc = "done" /\ req[p].op = "PUT") => req[p].status = 201
    /\ QuietDone(p, "PUT", 201)
         => getLatestValueFromLog(log, req[p].key) = {[value |-> req[p].body, found |-> TRUE]}

\* The log grew by at most one row and lost or changed none.
AtMostOneAppended == log' = log \/ (Len(log') = Len(log) + 1 /\ SubSeq(log', 1, Len(log)) = log)

\* C11 (write path leaves the cache alone): from its start to its answer a PUT
\* or DELETE handler changes nothing but the log, by one appended record; no
\* step of such a handler sets or deletes a cache entry.
C11_WriteStep ==
  \A p \in Procs :
    (req'[p].op \in {"PUT", "DELETE"} /\ req[p].pc # "done" /\ req'[p].pc # req[p].pc)
      => (cache' = cache /\ AtMostOneAppended)

C11_WritePathLeavesCache == [][C11_WriteStep]_vars

\* Reads alone at the synchronous-cache server, over any log and any content
\* of its cache, while Redis and CockroachDB may fail any call.
DegradedNext ==
  \/ \E p \in Procs, k \in Keys : SStartGet(p, k)
  \/ \E p \in Procs : SGetCacheHit(p)
  \/ \E p \in Procs : SGetCacheMiss(p)
  \/ \E p \in Procs : SGetCacheErr(p)
  \/ \E p \in Procs : SGetLoadOrStore(p)
  \/ \E p \in Procs : SGetLock(p)
  \/ \E p \in Procs : SGetRecheckHit(p)
  \/ \E p \in Procs : SGetRecheckMiss(p)
  \/ \E p \in Procs : SGetRecheckErr(p)
  \/ \E p \in Procs : SGetLogOk(p)
  \/ \E p \in Procs : SGetLogErr(p)
  \/ \E p \in Procs : SGetSetOk(p)
  \/ \E p \in Procs : SGetSetErr(p)
  \/ \E p \in Procs : SGetUnmap(p)
  \/ \E p \in Procs : SGetUnlock(p)
  \/ \E p \in Procs : Return(p)

SpecSyncDegraded == InitRead /\ [][DegradedNext]_vars

\* The key has no row, or its one row of greatest timestamp is a tombstone.
LatestIsNone(k) ==
  \/ KeyRows(log, k) = {}
  \/ \E i \in KeyRows(log, k) :
       /\ \A j \in KeyRows(log, k) \ {i} : log[j].ts < log[i].ts
       /\ log[i].deleted

\* C12 (cache failures never fail a read): a GET gets the status 500 only at
\* its log query; a log query that is answered gives 404 when the key's latest
\* record is absent or a tombstone and otherwise hands the latest value on to
\* the populate step, which answers 200 with it whether or not the cache
\* accepts it.
C12_GetStep ==
  \A p \in Procs :
    req[p].op = "GET" =>
      /\ (req'[p].status = 500 /\ req[p].status # 500)
           => req[p].pc \in {"get_log", "s_get_log"}
      /\ (req[p].pc \in {"get_log", "s_get_log"} /\ req'[p].pc # req[p].pc
            /\ req'[p].status # 500)
           => /\ LatestIsNone(req[p].key) => req'[p].status = 404
              /\ \A v \in Values :
                   LatestIs(req[p].key, v)
                     => (req'[p].pc \in {"get_set", "s_get_set"} /\ req'[p].value = v)
      /\ (req[p].pc \in {"get_set", "s_get_set"} /\ req'[p].pc # req[p].pc)
           => (req'[p].status = 200 /\ req'[p].body = req[p].value)

C12_CacheFailureNoReadFailure == [][C12_GetStep]_vars

\* The write handlers of the synchronous-cache server alone, on every input,
\* while appends and cache commands may fail.
SyncWritesNext ==
  \/ \E p \in Procs, o \in {"PUT", "DELETE"} : SRejectKey(p, o)
  \/ \E p \in Procs, k \in Keys : SRejectBody(p, k)
  \/ \E p \in Procs, k \in Keys : SRejectValue(p, k)
  \/ \E p \in Procs, k \in Keys, v \in Values : SStartPut(p, k, v)
  \/ \E p \in Procs : SPutAppendOk(p)
  \/ \E p \in Procs : SPutAppendErr(p)
  \/ \E p \in Procs : SPutCacheOk(p)
  \/ \E p \in Procs : SPutCacheErr(p)
  \/ \E p \in Procs, k \in Keys : SStartDelete(p, k)
  \/ \E p \in Procs : SDelAppendOk(p)
  \/ \E p \in Procs : SDelAppendErr(p)
  \/ \E p \in Procs : SDelCacheOk(p)
  \/ \E p \in Procs : SDelCacheErr(p)
  \/ \E p \in Procs : Return(p)

SpecSyncWrites == Init /\ [][SyncWritesNext]_vars

\* Where a write handler waits for appendToLog.
AppendPcs == {"put_append", "del_append", "s_put_append", "s_del_append"}

\* C13 (failed append is not applied): a write handler changes neither the log
\* nor the cache before its append; when the append adds no record the handler
\* answers 500 there and then, and the step that answers 500 leaves the log
\* and the cache, hence what a later GET of the key sees, as they were.
C13_AppendStep ==
  \A p \in Procs :
    /\ (req[p].pc = "idle" /\ req'[p].op \in {"PUT", "DELETE"})
         => (log' = log /\ cache' = cache)
    /\ (req[p].pc \in AppendPcs /\ req'[p].pc # req[p].pc /\ log' = log)
         => (req'[p].pc = "done" /\ req'[p].status = 500 /\ cache' = cache)
    /\ (req[p].pc \in AppendPcs /\ req'[p].status = 500)
         => /\ log' = log
            /\ cache' = cache
            /\ getLatestValueFromLog(log', req[p].key) = getLatestValueFromLog(log, req[p].key)

C13_FailedAppendNotApplied == [][C13_AppendStep]_vars

\* C13 witness: a DELETE has answered 500 and the key's record and cache entry
\* are those of the PUT before it.
C13_Witness ==
  \E p \in Procs :
    /\ req[p].pc = "done"
    /\ req[p].op = "DELETE"
    /\ req[p].status = 500
    /\ Len(log) = 1
    /\ log[1].key = req[p].key
    /\ ~log[1].deleted
    /\ cache[Local][req[p].key] = log[1].value

\* C14 (PUT outcome mapping): a PUT on a key answers 201, 400 or 500; 400 only
\* when its body does not decode (so not for the empty value), 500 when the
\* append fails, and 201 with the stored record when it succeeds.
C14_PutStep ==
  \A p \in Procs :
    (req'[p].op = "PUT" /\ req'[p].key # "" /\ req'[p].pc = "done" /\ req[p].pc # "done")
      => /\ req'[p].status \in {201, 400, 500}
         /\ req'[p].status = 400 => req'[p].value = BadBody
         /\ req'[p].status = 500 => (req[p].pc \in AppendPcs /\ log' = log)
         /\ req'[p].status = 201
              => \E i \in 1..Len(log') :
                   /\ log'[i].key = req'[p].key
                   /\ log'[i].value = req'[p].body
                   /\ ~log'[i].deleted

C14_PutOutcome == [][C14_PutStep]_vars

\* The keys a request path can carry: PUT /kv/ has the empty key.
KeySpace == Keys \cup {""}

\* One CDC server and its region's hydrator on every input (empty key, empty
\* value, undecodable body), while appends may fail.
InitEdge ==
  /\ log = <<>>
  /\ cache = [r \in Regions |-> [k \in KeySpace |-> NoEntry]]
  /\ clock = [r \in Regions |-> 1]
  /\ hpos = [r \in Regions |-> 0]
  /\ req = [p \in Procs |-> Idle]
  /\ keyLocks = [k \in Keys |-> 0]
  /\ holder = [m \in Procs |-> 0]
  /\ lastEvt = [r \in Regions |-> [k \in Keys |-> 0]]
  /\ runLen = [r \in Regions |-> [k \in Keys |-> 0]]
  /\ cache0 = cache
  /\ queries = [k \in Keys |-> 0]
  /\ faulted = FALSE
  /\ running = [r \in Regions |-> TRUE]
  /\ feed = <<>>

EdgeNext ==
  \/ \E p \in Procs, k \in KeySpace, v \in Values \cup {""} : StartPut(p, Local, k, v)
  \/ \E p \in Procs, k \in KeySpace : RejectPut(p, Local, k)
  \/ \E p \in Procs : PutAppendOk(p)
  \/ \E p \in Procs : PutAppendErr(p)
  \/ \E p \in Procs, k \in KeySpace : StartDelete(p, Local, k)
  \/ \E p \in Procs : DelAppendOk(p)
  \/ \E p \in Procs : DelAppendErr(p)
  \/ \E p \in Procs, k \in KeySpace : StartGet(p, Local, k)
  \/ \E p \in Procs : GetCacheHit(p)
  \/ \E p \in Procs : GetCacheMiss(p)
  \/ \E p \in Procs : GetLogOk(p)
  \/ \E p \in Procs : GetSetOk(p)
  \/ \E p \in Procs : Return(p)
  \/ Hydrate(Local)

SpecEdge == InitEdge /\ [][EdgeNext]_vars

\* C15 (validation without side effects): a request with an empty key is
\* answered 400 at once; a step that answers 400 appends no record and changes
\* no cache entry; and every record of the log has a non-empty key.
C15_ValidationStep ==
  /\ \A p \in Procs :
       /\ (req[p].pc = "idle" /\ req'[p].pc # "idle" /\ req'[p].key = "")
            => (req'[p].pc = "done" /\ req'[p].status = 400)
       /\ (req'[p].status = 400 /\ req[p].status # 400)
            => (log' = log /\ cache' = cache)
  /\ \A i \in 1..Len(log') : log'[i].key # ""

C15_ValidationNoSideEffect == [][C15_ValidationStep]_vars

\* Writes at one CDC server and the hydrators of all regions, whose
\* subscription may break; a hydrator that is running and has a delivered row
\* to apply does apply it.
FeedNext ==
  \/ \E p \in Procs, k \in Keys, v \in Values : StartPut(p, Local, k, v)
  \/ \E p \in Procs : PutAppendOk(p)
  \/ \E p \in Procs, k \in Keys : StartDelete(p, Local, k)
  \/ \E p \in Procs : DelAppendOk(p)
  \/ \E p \in Procs : Return(p)
  \/ \E r \in Regions : Hydrate(r)
  \/ \E r \in Regions : Disconnect(r)

SpecFeed == Init /\ [][FeedNext]_vars /\ \A r \in Regions : WF_vars(Hydrate(r))

\* C16 (resubscription): every change event committed after a region's
\* subscription has broken is eventually applied by that region's hydrator.
C16_EventuallyApplied ==
  \A r \in Regions : \A i \in 1..MaxLog :
    []((~running[r] /\ Len(log) < i) => []((Len(log) >= i) => <>(hpos[r] >= i)))

\* One CDC server and its region's hydrator: PUT, DELETE and GET of a key
\* while appends may fail.
LogNext ==
  \/ \E p \in Procs, k \in Keys, v \in Values : StartPut(p, Local, k, v)
  \/ \E p \in Procs : PutAppendOk(p)
  \/ \E p \in Procs : PutAppendErr(p)
  \/ \E p \in Procs, k \in Keys : StartDelete(p, Local, k)
  \/ \E p \in Procs : DelAppendOk(p)
  \/ \E p \in Procs : DelAppendErr(p)
  \/ \E p \in Procs, k \in Keys : StartGet(p, Local, k)
  \/ \E p \in Procs : GetCacheHit(p)
  \/ \E p \in Procs : GetCacheMiss(p)
  \/ \E p \in Procs : GetLogOk(p)
  \/ \E p \in Procs : GetSetOk(p)
  \/ \E p \in Procs : Return(p)
  \/ Hydrate(Local)

SpecLog == InitEdge /\ [][LogNext]_vars

\* C17 (append-only log): no step removes or changes a record; the log grows
\* only by one record at a time, at the append of a PUT or DELETE handler,
\* and the record is that handler's; a PUT or DELETE that gets past its append
\* without the status 500 has appended exactly one record; no step of a GET
\* and no step of a hydrator changes the log.
C17_LogStep ==
  /\ AtMostOneAppended
  /\ log' # log
       => \E p \in Procs :
            /\ req[p].pc \in AppendPcs
            /\ req'[p].pc # req[p].pc
            /\ log'[Len(log')].key = req[p].key
            /\ log'[Len(log')].value = req[p].value
            /\ log'[Len(log')].deleted = (req[p].op = "DELETE")
  /\ \A p \in Procs :
       /\ (req[p].pc \in AppendPcs /\ req'[p].pc # req[p].pc /\ req'[p].status # 500)
            => Len(log') = Len(log) + 1
       /\ (req[p].op = "GET" /\ req'[p] # req[p]) => log' = log
  /\ (hpos' # hpos \/ running' # running) => log' = log

SectionPcs == {"s_get_recheck", "s_get_log", "s_get_set", "s_get_unmap", "s_get_unlock"}

InSection(p, k) == req[p].op = "GET" /\ req[p].key = k /\ req[p].pc \in SectionPcs

\* C18 (per-key mutual exclusion): for every key at most one GET handler is
\* between acquiring the per-key lock and releasing it.
C18_MutualExclusion ==
  \A k \in Keys : \A p, q \in Procs : (InSection(p, k) /\ InSection(q, k)) => p = q

\* One step of the goroutine that runs handleGet for request p, whatever the
\* outcome of the call it makes.
GetStep(p) ==
  \/ SGetCacheHit(p)
  \/ SGetCacheMiss(p)
  \/ SGetCacheErr(p)
  \/ SGetLoadOrStore(p)
  \/ SGetLock(p)
  \/ SGetRecheckHit(p)
  \/ SGetRecheckMiss(p)
  \/ SGetRecheckErr(p)
  \/ SGetLogOk(p)
  \/ SGetLogErr(p)
  \/ SGetSetOk(p)
  \/ SGetSetErr(p)
  \/ SGetUnmap(p)
  \/ SGetUnlock(p)

\* Concurrent GETs of a key that misses the cache, while Redis and CockroachDB
\* may fail any call; the Go scheduler runs every goroutine that can take a
\* step, and every call returns.
InitLock ==
  /\ log \in {<<LogEntry(k, v, 1, FALSE)>> : k \in Keys, v \in Values}
               \cup {<<LogEntry(k, "", 1, TRUE)>> : k \in Keys}
  /\ cache = [r \in Regions |-> [k \in Keys |-> NoEntry]]
  /\ clock = [r \in Regions |-> MaxTime]
  /\ hpos = [r \in Regions |-> 0]
  /\ req = [p \in Procs |-> Idle]
  /\ keyLocks = [k \in Keys |-> 0]
  /\ holder = [m \in Procs |-> 0]
  /\ lastEvt = [r \in Regions |-> [k \in Keys |-> 0]]
  /\ runLen = [r \in Regions |-> [k \in Keys |-> 0]]
  /\ cache0 = cache
  /\ queries = [k \in Keys |-> 0]
  /\ faulted = FALSE
  /\ running = [r \in Regions |-> TRUE]
  /\ feed = <<>>

SpecLock == InitLock /\ [][DegradedNext]_vars /\ \A p \in Procs : WF_vars(GetStep(p))

\* Where a GET waits for, or holds, a per-key lock.
LockPcs == SectionPcs \cup {"s_get_lock"}

C20_RecheckStep ==
  \A p \in Procs :
    /\ (req[p].pc = "s_get_lock" /\ req'[p].pc # "s_get_lock")
         => (req'[p].pc = "s_get_recheck" /\ queries' = queries)
    /\ (req[p].pc = "s_get_recheck" /\ req'[p].pc # "s_get_recheck"
          /\ cache[Local][req[p].key] # NoEntry)
         => /\ req'[p].pc = "s_get_unmap"
            /\ req'[p].status = 200
            /\ req'[p].body = cache[Local][req[p].key]
            /\ queries' = queries
    /\ (req'[p].pc = "s_get_log" /\ req[p].pc # "s_get_log")
         => (req[p].pc = "s_get_recheck" /\ cache[Local][req[p].key] = NoEntry)

C20_RecheckAfterLock == [][C20_RecheckStep]_vars

\* C20 witness: two GETs of the key both missed the cache and both have
\* answered 200 from under a lock, and the log was queried once: one of them
\* answered from its re-check.
C20_Witness ==
  \E p, q \in Procs :
    /\ p # q
    /\ req[p].key = req[q].key
    /\ req[p].pc = "s_get_unmap" /\ req[p].status = 200 /\ req[p].mu # 0
    /\ req[q].pc \in {"s_get_unmap", "s_get_unlock"} /\ req[q].status = 200 /\ req[q].mu # 0
    /\ req[p].body = cache[Local][req[p].key]
    /\ queries[req[p].key] = 1

\* Where a GET handler waits for its first cache lookup, and for its log query.
CachePcs == {"get_cache", "s_get_cache"}

LogPcs == {"get_log", "s_get_log"}

\* C21 (cache hit is independent of the log): a GET answered 200 at its first
\* cache lookup answers the cached value in that one step, with no log query
\* and no per-key lock; a GET that leaves the lookup for the miss path found no
\* entry or got no answer from the cache; and a GET gets the status 500 only
\* at its log query, which it reaches only after the lookup did not hit.
C21_HitStep ==
  \A p \in Procs :
    req[p].op = "GET" =>
      /\ (req[p].pc \in CachePcs /\ req'[p].pc = "done" /\ req'[p].status = 200)
           => /\ req'[p].body = cache[req[p].region][req[p].key]
              /\ req'[p].body # NoEntry
              /\ queries' = queries
              /\ keyLocks' = keyLocks /\ holder' = holder
              /\ log' = log /\ cache' = cache
      /\ (req[p].pc \in CachePcs /\ req'[p].pc \notin CachePcs \cup {"done"})
           => (cache[req[p].region][req[p].key] = NoEntry \/ faulted')
      /\ (req'[p].status = 500 /\ req[p].status # 500) => req[p].pc \in LogPcs

C21_HitPathIndependent == [][C21_HitStep]_vars

\* C22 (write returns before the cache is updated): a PUT or DELETE answers
\* 201/200 only with its record in the log, and the step in which its append
\* is acknowledged is the step that answers, with the cache as it was: no
\* cache update of the handler stands between the acknowledgement and the
\* response.
C22_AckStep ==
  \A p \in Procs :
    req'[p].op \in {"PUT", "DELETE"} =>
      /\ (req[p].pc # "done" /\ req'[p].pc = "done" /\ req'[p].status \in {200, 201})
           => \E i \in 1..Len(log') :
                log'[i] = LogEntry(req[p].key, req[p].value, req[p].ts, req[p].op = "DELETE")
      /\ (req[p].pc \in AppendPcs /\ req'[p].pc # req[p].pc /\ log' # log)
           => (req'[p].pc = "done" /\ req'[p].status \in {200, 201} /\ cache' = cache)

C22_ReturnBeforeCache == [][C22_AckStep]_vars

\* The consumer alone on a feed of at most MaxRows rows with any timestamps,
\* rows being delivered in order and delivered again at any time.
InitRedeliver ==
  /\ log \in Logs(MaxRows)
  /\ cache \in {c \in Caches : \A r \in Regions \ {Local} : \A k \in Keys : c[r][k] = NoEntry}
  /\ clock = [r \in Regions |-> MaxTime]
  /\ hpos = [r \in Regions |-> 0]
  /\ req = [p \in Procs |-> Idle]
  /\ keyLocks = [k \in Keys |-> 0]
  /\ holder = [m \in Procs |-> 0]
  /\ lastEvt = [r \in Regions |-> [k \in Keys |-> 0]]
  /\ runLen = [r \in Regions |-> [k \in Keys |-> 0]]
  /\ cache0 = cache
  /\ queries = [k \in Keys |-> 0]
  /\ faulted = FALSE
  /\ running = [r \in Regions |-> TRUE]
  /\ feed = <<>>

RedeliverNext ==
  \/ HydrateAlone(Local)
  \/ \E i \in 1..MaxRows : RedeliverAlone(Local, i)

SpecRedeliver == InitRedeliver /\ [][RedeliverNext]_vars

\* C23 (no timestamp comparison in the consumer): a redelivered event is
\* applied whatever was applied before it: afterwards the cache holds the
\* event's value, or no entry if the event is a tombstone; when the event
\* applied last to the key was that of a newer record which is the key's
\* latest and whose state differs, the cache now differs from the log's
\* current state of the key.
C23_RedeliverStep ==
  \A i \in 1..MaxRows :
    RedeliverAlone(Local, i) =>
      LET k == log[i].key
          j == lastEvt[Local][k]
      IN /\ cache'[Local][k] = EntryOf(log[i])
         /\ (/\ j # 0
             /\ log[j].ts > log[i].ts
             /\ TopRows(log, k) = {j}
             /\ EntryOf(log[j]) # EntryOf(log[i]))
              => /\ cache[Local][k] = EntryOf(log[j])
                 /\ cache'[Local][k] # EntryOf(log[j])

C23_OlderEventRegresses == [][C23_RedeliverStep]_vars

\* C23 witness: both events of a key were applied in order, the older one was
\* delivered again, and the cache holds the older event's state, which is not
\* the state of the key's latest record.
C23_Witness ==
  /\ Len(log) = 2
  /\ hpos[Local] = 2
  /\ log[1].key = log[2].key
  /\ log[2].ts > log[1].ts
  /\ lastEvt[Local][log[1].key] = 1
  /\ EntryOf(log[1]) # EntryOf(log[2])
  /\ cache[Local][log[1].key] = EntryOf(log[1])

\* ------------------------------ the changefeed rows as the hydrator reads them
\* The value column after rows.Scan: a sql.NullString. The JSON text is kept
\* as the sequence of its tokens.
NullValue == [Valid |-> FALSE, String |-> <<>>]

\* The JSON object of a change event.
Marshal(msg) == <<"{", msg.key, msg.value, msg.deleted, "}">>

\* Texts that are not a JSON object: the object cut short.
Truncated == {<<"{", k>> : k \in Keys}

\* json.Unmarshal into a ChangefeedMessage: an error unless the text is a
\* complete object; the fields are taken from the object.
Unmarshal(text) ==
  IF Len(text) = 5 /\ text[1] = "{" /\ text[5] = "}"
  THEN [err |-> FALSE, msg |-> [key |-> text[2], value |-> text[3], deleted |-> text[4]]]
  ELSE [err |-> TRUE, msg |-> [key |-> "", value |-> "", deleted |-> FALSE]]

\* The messages of the rows a log can hold.
Messages == {ChangefeedMessage(row) : row \in Rows}

\* What a changefeed row's value column can be: NULL (a checkpoint), the JSON
\* of a change event, or a text that does not parse.
FeedValues == {NullValue}
                \cup {[Valid |-> TRUE, String |-> Marshal(m)] : m \in Messages}
                \cup {[Valid |-> TRUE, String |-> t] : t \in Truncated}

Feeds == UNION {[1..n -> FeedValues] : n \in 0..MaxEvents}

\* The row the next turn of the loop scans.
Scanned(r) == feed[hpos[r] + 1]

\* A consumer that takes a row without payload for an invalidation of all keys.
FeedSkipNull_Clear(r) ==
  /\ running[r]
  /\ hpos[r] < Len(feed)
  /\ ~Scanned(r).Valid
  /\ cache' = [cache EXCEPT ![r] = [k \in DOMAIN @ |-> NoEntry]]
  /\ hpos' = [hpos EXCEPT ![r] = @ + 1]
  /\ UNCHANGED <<log, clock, req, queries, faulted, syncVars, ghostVars, running, feed>>

\* if !value.Valid { continue }
FeedSkipNull(r) ==
  /\ running[r]
  /\ hpos[r] < Len(feed)
  /\ ~Scanned(r).Valid
  /\ hpos' = [hpos EXCEPT ![r] = @ + 1]
  /\ UNCHANGED <<log, cache, clock, req, queries, faulted, syncVars, ghostVars, running, feed>>

\* A consumer for which a text that does not parse is fatal.
FeedSkipMalformed_Fatal(r) ==
  /\ running[r]
  /\ hpos[r] < Len(feed)
  /\ Scanned(r).Valid
  /\ Unmarshal(Scanned(r).String).err
  /\ running' = [running EXCEPT ![r] = FALSE]
  /\ UNCHANGED <<log, cache, clock, hpos, req, queries, faulted, syncVars, ghostVars, feed>>

\* json.Unmarshal returns an error: logged, continue.
FeedSkipMalformed(r) ==
  /\ running[r]
  /\ hpos[r] < Len(feed)
  /\ Scanned(r).Valid
  /\ Unmarshal(Scanned(r).String).err
  /\ hpos' = [hpos EXCEPT ![r] = @ + 1]
  /\ UNCHANGED <<log, cache, clock, req, queries, faulted, syncVars, ghostVars, running, feed>>

\* The payload parses: Del on a tombstone, Set otherwise.
FeedApply(r) ==
  /\ running[r]
  /\ hpos[r] < Len(feed)
  /\ Scanned(r).Valid
  /\ ~Unmarshal(Scanned(r).String).err
  /\ cache' = [cache EXCEPT ![r] = ApplyChange(@, Unmarshal(Scanned(r).String).msg)]
  /\ hpos' = [hpos EXCEPT ![r] = @ + 1]
  /\ UNCHANGED <<log, clock, req, queries, faulted, syncVars, ghostVars, running, feed>>

\* The consumer of one region alone, on any feed of at most MaxEvents rows
\* (change events, checkpoints, texts that do not parse) and any cache.
InitFeed ==
  /\ feed \in Feeds
  /\ log = <<>>
  /\ cache \in {c \in Caches : \A r \in Regions \ {Local} : \A k \in Keys : c[r][k] = NoEntry}
  /\ clock = [r \in Regions |-> MaxTime]
  /\ hpos = [r \in Regions |-> 0]
  /\ req = [p \in Procs |-> Idle]
  /\ keyLocks = [k \in Keys |-> 0]
  /\ holder = [m \in Procs |-> 0]
  /\ lastEvt = [r \in Regions |-> [k \in Keys |-> 0]]
  /\ runLen = [r \in Regions |-> [k \in Keys |-> 0]]
  /\ cache0 = cache
  /\ queries = [k \in Keys |-> 0]
  /\ faulted = FALSE
  /\ running = [r \in Regions |-> TRUE]

ScanNext ==
  \/ FeedSkipNull(Local)
  \/ FeedSkipMalformed(Local)
  \/ FeedApply(Local)

SpecScan == InitFeed /\ [][ScanNext]_vars

\* The rows of the feed consumed so far whose payload parses to an event of k.
EventsOf(k) ==
  {i \in 1..hpos[Local] : /\ feed[i].Valid
                          /\ ~Unmarshal(feed[i].String).err
                          /\ Unmarshal(feed[i].String).msg.key = k}

Latest(S) == CHOOSE i \in S : \A j \in S : j <= i

\* The cache entry of every key is that of the last parsed event of the key
\* among the rows consumed, whatever rows stand between the events.
CacheFollowsFeed ==
  \A k \in Keys :
    cache[Local][k] = IF EventsOf(k) = {} THEN cache0[Local][k]
                      ELSE EntryOf(Unmarshal(feed[Latest(EventsOf(k))].String).msg)

\* The next row scanned has a payload, and it does not parse.
AtMalformed ==
  /\ hpos[Local] < Len(feed)
  /\ Scanned(Local).Valid
  /\ Unmarshal(Scanned(Local).String).err

\* C24 (malformed events are isolated): the turn of the loop on a payload that
\* does not parse changes no cache entry, leaves the consumer running and
\* moves it to the next row; and every event that parses is applied whatever
\* malformed rows came before it: the cache always holds, for each key, the
\* state of the last parsed event of the key among the rows consumed.
C24_MalformedIsolated ==
  /\ [][AtMalformed => /\ cache' = cache
                       /\ running'[Local]
                       /\ hpos'[Local] = hpos[Local] + 1]_vars
  /\ [](CacheFollowsFeed)

\* C24 witness: a row that does not parse was consumed, the event after it was
\* applied and changed the cache entry.
C24_Witness ==
  \E i \in 1..(MaxEvents - 1) :
    /\ hpos[Local] = i + 1
    /\ Len(feed) >= i + 1
    /\ feed[i].Valid /\ Unmarshal(feed[i].String).err
    /\ feed[i + 1].Valid /\ ~Unmarshal(feed[i + 1].String).err
    /\ running[Local]
    /\ cache[Local]["k"] = EntryOf(Unmarshal(feed[i + 1].String).msg)
    /\ cache[Local]["k"] # cache0[Local]["k"]

\* The next row scanned is a checkpoint: its value column is NULL.
AtCheckpoint == hpos[Local] < Len(feed) /\ ~Scanned(Local).Valid

\* C25 (payload-less events are skipped): the turn of the loop on a row whose
\* value is NULL changes no cache entry and nothing else but the consumer's
\* position, which moves to the next row, the consumer still running.
C25_CheckpointStep ==
  AtCheckpoint => /\ cache' = cache
                  /\ log' = log
                  /\ running'[Local]
                  /\ hpos'[Local] = hpos[Local] + 1
                  /\ (hpos'[Local] < Len(feed') => feed'[hpos'[Local] + 1] = feed[hpos[Local] + 2])

C25_CheckpointSkipped == [][C25_CheckpointStep]_vars

\* C25 witness: a checkpoint stood between two events of a key; all three rows
\* were consumed and the cache holds the state of the second event.
C25_Witness ==
  /\ Len(feed) = 3
  /\ hpos[Local] = 3
  /\ feed[1].Valid /\ ~Unmarshal(feed[1].String).err
  /\ ~feed[2].Valid
  /\ feed[3].Valid /\ ~Unmarshal(feed[3].String).err
  /\ EntryOf(Unmarshal(feed[1].String).msg) # EntryOf(Unmarshal(feed[3].String).msg)
  /\ cache[Local]["k"] = EntryOf(Unmarshal(feed[3].String).msg)

\* Any committed log of at most MaxRows rows, read by the GETs of one CDC
\* server and replayed in order by its region's hydrator into an empty cache.
InitReplay ==
  /\ log \in Logs(MaxRows)
  /\ cache = [r \in Regions |-> [k \in Keys |-> NoEntry]]
  /\ clock = [r \in Regions |-> MaxTime]
  /\ hpos = [r \in Regions |-> 0]
  /\ req = [p \in Procs |-> Idle]
  /\ keyLocks = [k \in Keys |-> 0]
  /\ holder = [m \in Procs |-> 0]
  /\ lastEvt = [r \in Regions |-> [k \in Keys |-> 0]]
  /\ runLen = [r \in Regions |-> [k \in Keys |-> 0]]
  /\ cache0 = cache
  /\ queries = [k \in Keys |-> 0]
  /\ faulted = FALSE
  /\ running = [r \in Regions |-> TRUE]
  /\ feed = <<>>

ReplayNext ==
  \/ \E p \in Procs, k \in Keys : StartGet(p, Local, k)
  \/ \E p \in Procs : GetCacheHit(p)
  \/ \E p \in Procs : GetCacheMiss(p)
  \/ \E p \in Procs : GetLogOk(p)
  \/ \E p \in Procs : GetSetOk(p)
  \/ \E p \in Procs : Return(p)
  \/ Hydrate(Local)

SpecReplay == InitReplay /\ [][ReplayNext]_vars

\* A tombstone of k was committed, a record (k, v) was committed after it, and
\* that record has the greatest timestamp of the key's records.
Superseded(k, v) ==
  \E i, j \in KeyRows(log, k) :
    /\ i < j
    /\ log[i].deleted
    /\ ~log[j].deleted
    /\ log[j].value = v
    /\ \A m \in KeyRows(log, k) \ {j} : log[m].ts < log[j].ts

\* C26 (a tombstone is superseded by a later value): when a DELETE of k and
\* then a PUT of (k, v) with the later timestamp are in the log, the query for
\* the latest value of k answers v; a GET that reaches the log then goes on
\* with v and answers 200 with the value it read; and the hydrator's step on
\* the event of a record committed after a tombstone of its key leaves the
\* cache entry of the key at the record's value.
C26_SupersedeStep ==
  /\ \A p \in Procs : \A v \in Values :
       /\ (req[p].pc = "get_log" /\ Superseded(req[p].key, v) /\ req'[p].pc # req[p].pc)
            => (req'[p].pc = "get_set" /\ req'[p].value = v)
       /\ (req[p].pc = "get_set" /\ req[p].value = v /\ req'[p].pc # req[p].pc)
            => (req'[p].pc = "done" /\ req'[p].status = 200 /\ req'[p].body = v)
  /\ \A j \in 1..Len(log) :
       (/\ hpos[Local] = j - 1
        /\ hpos'[Local] = j
        /\ ~log[j].deleted
        /\ \E i \in 1..(j - 1) : log[i].key = log[j].key /\ log[i].deleted)
         => cache'[Local][log[j].key] = log[j].value

C26_TombstoneSuperseded ==
  /\ [](\A k \in Keys : \A v \in Values :
          Superseded(k, v) => getLatestValueFromLog(log, k) = {[value |-> v, found |-> TRUE]})
  /\ [][C26_SupersedeStep]_vars

\* C26 witness: a DELETE and then a PUT of the key are in the log, the PUT
\* with the later timestamp; the hydrator has applied both and the cache holds
\* the PUT's value; one GET has read that value from the log and another has
\* answered 200 with it.
C26_Witness ==
  \E v \in Values :
    /\ Len(log) = 2
    /\ log[1].deleted
    /\ Superseded("k", v)
    /\ hpos[Local] = 2
    /\ cache[Local]["k"] = v
    /\ \E p \in Procs : req[p].op = "GET" /\ req[p].pc = "get_set" /\ req[p].value = v
    /\ \E p \in Procs : req[p].op = "GET" /\ req[p].pc = "done"
                          /\ req[p].status = 200 /\ req[p].body = v

\* C27 (timestamps monotone per key): a write handler that starts when records
\* of its key are already in the log (their appends acknowledged) stamps its
\* record with a timestamp greater than that of each of them, whichever
\* servers stamped them.
C27_StampStep ==
  \A p \in Procs :
    (req[p].pc = "idle" /\ req'[p].pc \in AppendPcs)
      => \A i \in KeyRows(log, req'[p].key) : log[i].ts < req'[p].ts

C27_MonotoneTimestamps == [][C27_StampStep]_vars

\* Every handler has returned.
AllReturned == \A p \in Procs : req[p].pc \in {"idle", "done"}

\* The records of every key were committed, hence delivered, in the order of
\* their timestamps.
TsOrdered ==
  \A i, j \in 1..Len(log) : (i < j /\ log[i].key = log[j].key) => log[i].ts < log[j].ts

\* The cache entry of k at r, if there is one, is the value of the key's latest
\* record, which is not a tombstone.
Coherent(r, k) == cache[r][k] = NoEntry \/ LatestIs(k, cache[r][k])

\* C28 (coherence at quiescence, CDC design): when the events were delivered
\* once each in per-key timestamp order, every handler has returned and every
\* hydrator has processed the whole log, each cache entry that exists equals
\* the log's current value of its key, and a key whose latest record is a
\* tombstone has no entry.
C28_QuiescentCoherence ==
  (AllReturned /\ TsOrdered /\ \A r \in Regions : hpos[r] = Len(log))
    => \A r \in Regions : \A k \in Keys : Coherent(r, k)

\* C29 (coherence at quiescence, synchronous-cache server): once every handler
\* has returned, the cache entry of each key, if there is one, is the value of
\* the key's record of greatest timestamp, and there is none if that record is
\* a tombstone.
C29_SyncQuiescentCoherence ==
  AllReturned => \A k \in Keys : Coherent(Local, k)

\* C30 (cache values are never fabricated): every cache entry of every region
\* holds the value of some record of its key in the log that is not a
\* tombstone.
C30_NoFabricatedValue ==
  \A r \in Regions : \A k \in DOMAIN cache[r] :
    cache[r][k] # NoEntry
      => \E i \in KeyRows(log, k) : ~log[i].deleted /\ log[i].value = cache[r][k]

\* C30 witness: the key was put twice with different values and then deleted;
\* the hydrator has applied the first event only and the cache holds the first
\* value, which a GET has answered.
C30_Witness ==
  /\ Len(log) = 2
  /\ ~log[1].deleted
  /\ log[2].key = log[1].key
  /\ (log[2].deleted \/ log[2].value # log[1].value)
  /\ hpos[Local] = 1
  /\ cache[Local][log[1].key] = log[1].value
  /\ \E p \in Procs : req[p].op = "GET" /\ req[p].pc = "done" /\ req[p].status = 200

\* A log of at most MaxRows rows written through one server, whose clock
\* advanced between the writes (the i-th row is stamped i); the region's
\* hydrator has applied none of it yet and the cache is empty.
InitGetFaults ==
  /\ log \in {l \in Logs(MaxRows) : \A i \in 1..Len(l) : l[i].ts = i}
  /\ cache = [r \in Regions |-> [k \in Keys |-> NoEntry]]
  /\ clock = [r \in Regions |-> MaxTime]
  /\ hpos = [r \in Regions |-> 0]
  /\ req = [p \in Procs |-> Idle]
  /\ keyLocks = [k \in Keys |-> 0]
  /\ holder = [m \in Procs |-> 0]
  /\ lastEvt = [r \in Regions |-> [k \in Keys |-> 0]]
  /\ runLen = [r \in Regions |-> [k \in Keys |-> 0]]
  /\ cache0 = cache
  /\ queries = [k \in Keys |-> 0]
  /\ faulted = FALSE
  /\ running = [r \in Regions |-> TRUE]
  /\ feed = <<>>

\* The GETs of one CDC server while any call to Redis or CockroachDB may fail,
\* and the region's hydrator replaying the log in order.
GetFaultsNext ==
  \/ \E p \in Procs, k \in Keys : StartGet(p, Local, k)
  \/ \E p \in Procs : GetCacheHit(p)
  \/ \E p \in Procs : GetCacheMiss(p)
  \/ \E p \in Procs : GetCacheErr(p)
  \/ \E p \in Procs : GetLogOk(p)
  \/ \E p \in Procs : GetLogErr(p)
  \/ \E p \in Procs : GetSetOk(p)
  \/ \E p \in Procs : GetSetErr(p)
  \/ \E p \in Procs : Return(p)
  \/ Hydrate(Local)

SpecGetFaults == InitGetFaults /\ [][GetFaultsNext]_vars

\* Handler p takes this step and is serving a GET.
GetMoves(p) ==
  /\ req'[p].pc # req[p].pc
  /\ (req[p].op = "GET" \/ req'[p].op = "GET")

\* C31 (GET frame): no step of a GET handler appends to or changes the log,
\* and none removes a cache entry; the only cache change a GET makes is to
\* store, in the step that fixes its answer as 200, the value it read from the
\* log; a GET whose answer is fixed (404, 500 or any other) changes the cache
\* in that step and afterwards not at all, and its status stays what it is
\* until it returns; a 404 is answered only by the step that queried the log
\* and got "not found", and a lookup that finds no cache entry is never
\* answered 200 or 404 there: the GET goes on towards the log.
C31_GetStep ==
  \A p \in Procs :
    GetMoves(p) =>
      /\ log' = log
      /\ \A r \in Regions : \A k \in DOMAIN cache[r] :
           cache'[r][k] = NoEntry => cache[r][k] = NoEntry
      /\ cache' # cache
           => /\ req[p].status = 0
              /\ req'[p].status = 200
              /\ req'[p].body # NoEntry
              /\ cache' = [cache EXCEPT ![req[p].region][req[p].key] = req'[p].body]
      /\ req'[p].status \in {404, 500} => cache' = cache
      /\ (req[p].status # 0 /\ req'[p].pc # "idle") => req'[p].status = req[p].status
      /\ (req'[p].status = 404 /\ req[p].status = 0)
           => /\ req[p].pc \in LogPcs
              /\ NotFound \in getLatestValueFromLog(log, req[p].key)
      /\ (req[p].pc \in CachePcs /\ cache[req[p].region][req[p].key] = NoEntry)
           => req'[p].status \in {0, 500}

C31_GetFrame == [][C31_GetStep]_vars

\* C31 witness: the hydrator has applied a PUT but not yet the DELETE that
\* follows it, so the cache holds the PUT's value; one GET, whose cache lookup
\* failed, was answered 404 from the log and another was answered 500 on a
\* failed log query; the cache entry is still there.
C31_Witness ==
  /\ Len(log) = 2
  /\ ~log[1].deleted
  /\ log[2].deleted
  /\ log[2].key = log[1].key
  /\ log[2].ts > log[1].ts
  /\ hpos[Local] = 1
  /\ cache[Local][log[1].key] = log[1].value
  /\ \E p, q \in Procs :
       /\ req[p].op = "GET" /\ req[p].pc = "done" /\ req[p].status = 404
       /\ req[p].key = log[1].key
       /\ req[q].op = "GET" /\ req[q].pc = "done" /\ req[q].status = 500
       /\ req[q].key = log[1].key

====
